---- MODULE Spec2Model ----
(***************************************************************************)
(* A model of src/src/burger.py: the burger-making command-line utility.   *)
(*                                                                         *)
(* Text (Python str) is a sequence of one-character strings, so that       *)
(* strip(), lower(), split(), join() and the f-string are computed, not    *)
(* assumed.  Prices (Python float) are integers counting thousandths.      *)
(* Every function of the module is an operator that returns the outcome    *)
(* of one call: the exception it raised (or "none"), its return value, the *)
(* log records it emitted and the new values of the globals it assigns.    *)
(***************************************************************************)
EXTENDS Integers, Sequences, FiniteSets, TLC

VARIABLES
    BURGER_COUNT,   \* burger.py:14  the process-wide order counter
    last_burger,    \* burger.py:15  the last assembled description, or None
    dirs,           \* the directories tempfile.mkdtemp has created: name -> files
    call,           \* the call in progress on the module's API, with its outcome
    ncalls,         \* history: the API calls made so far
    invocations,    \* history: the invocations of assemble_burger so far
    returned        \* history: what the last invocation of assemble_burger that
                    \* returned a description returned, or None

vars == <<BURGER_COUNT, last_burger, dirs, call, ncalls, invocations, returned>>

----------------------------------------------------------------------------
(* Bounds of the model *)

\* calls made on the module's API in one behaviour
MaxCalls == 3
\* longest ingredient list handed to calculate_burger_price
MaxIngredients == 3

----------------------------------------------------------------------------
(* Python values *)

None == [t |-> "None"]
PyStr(s) == [t |-> "str", s |-> s]
PyInt(n) == [t |-> "int", n |-> n]
\* a float, counted in thousandths
PyFloat(n) == [t |-> "float", n |-> n]
PyBool(b) == [t |-> "bool", b |-> b]
PyList(l) == [t |-> "list", l |-> l]

\* Python truth value testing, as used by `if not x` / `if x`
Truthy(v) ==
    CASE v.t = "None" -> FALSE
      [] v.t = "str"  -> v.s # <<>>
      [] v.t = "int"  -> v.n # 0
      [] v.t = "float" -> v.n # 0
      [] v.t = "bool" -> v.b
      [] v.t = "list" -> v.l # <<>>

\* A log record emitted through `logger`
Log(level, msg) == [level |-> level, msg |-> msg]

CountLevel(logs, level) ==
    Cardinality({i \in 1..Len(logs) : logs[i].level = level})

\* mutant: a handler that catches BaseException, the user's interrupt included
IsException_all(e) == TRUE

\* `except Exception` catches every exception class but the BaseException-only
\* ones; of the exceptions of this model only KeyboardInterrupt is one of those
IsException(e) == e \in {"EOFError", "ValueError", "OSError", "UnicodeEncodeError"}

----------------------------------------------------------------------------
(* Text *)

UPPER == <<"A","B","C","D","E","F","G","H","I","J","K","L","M",
           "N","O","P","Q","R","S","T","U","V","W","X","Y","Z">>
LOWER == <<"a","b","c","d","e","f","g","h","i","j","k","l","m",
           "n","o","p","q","r","s","t","u","v","w","x","y","z">>

\* characters str.strip() removes
Whitespace == {" ", "\t"}

\* a lone surrogate code point (what surrogateescape decoding of a stray input
\* byte yields): a character of a str that UTF-8 cannot encode
Surrogate == "\\udc80"

LowerChar(c) ==
    IF \E i \in 1..Len(UPPER) : UPPER[i] = c
    THEN LOWER[CHOOSE i \in 1..Len(UPPER) : UPPER[i] = c]
    ELSE c

UpperChar(c) ==
    IF \E i \in 1..Len(LOWER) : LOWER[i] = c
    THEN UPPER[CHOOSE i \in 1..Len(LOWER) : LOWER[i] = c]
    ELSE c

\* str.lower()
Lower(s) == [i \in 1..Len(s) |-> LowerChar(s[i])]

\* str.upper()
Upper(s) == [i \in 1..Len(s) |-> UpperChar(s[i])]

RECURSIVE LStrip(_)
LStrip(s) ==
    IF s # <<>> /\ Head(s) \in Whitespace THEN LStrip(Tail(s)) ELSE s

RECURSIVE RStrip(_)
RStrip(s) ==
    IF s # <<>> /\ s[Len(s)] \in Whitespace
    THEN RStrip(SubSeq(s, 1, Len(s) - 1))
    ELSE s

\* mutant: only the leading whitespace is removed
Strip_left_only(s) == LStrip(s)

\* str.strip()
Strip(s) == RStrip(LStrip(s))

StartsWith(s, p) == Len(s) >= Len(p) /\ SubSeq(s, 1, Len(p)) = p

\* str.split(sep): the pieces of s between the occurrences of sep, left to right
RECURSIVE SplitFrom(_, _, _)
SplitFrom(s, sep, piece) ==
    IF s = <<>> THEN <<piece>>
    ELSE IF StartsWith(s, sep)
         THEN <<piece>> \o SplitFrom(SubSeq(s, Len(sep) + 1, Len(s)), sep, <<>>)
         ELSE SplitFrom(Tail(s), sep, Append(piece, Head(s)))

Split(s, sep) == SplitFrom(s, sep, <<>>)

\* sep.join(parts)
RECURSIVE Join(_, _)
Join(sep, parts) ==
    IF parts = <<>> THEN <<>>
    ELSE IF Len(parts) = 1 THEN parts[1]
         ELSE parts[1] \o sep \o Join(sep, Tail(parts))

\* str.encode("utf-8") succeeds
Encodable(s) == \A i \in 1..Len(s) : s[i] # Surrogate

Digits == <<"0","1","2","3","4","5","6","7","8","9">>

\* str(n) for an int n >= 0: its decimal text
RECURSIVE DecimalText(_)
DecimalText(n) ==
    IF n < 10 THEN <<Digits[n + 1]>>
    ELSE Append(DecimalText(n \div 10), Digits[(n % 10) + 1])

----------------------------------------------------------------------------
(* The words of the program *)

W_bun     == <<"b","u","n">>
W_beef    == <<"b","e","e","f">>
W_chicken == <<"c","h","i","c","k","e","n">>
W_cheese  == <<"c","h","e","e","s","e">>
W_tomato  == <<"t","o","m","a","t","o">>
W_lettuce == <<"l","e","t","t","u","c","e">>
W_sauce   == <<"s","a","u","c","e">>
W_meat    == <<"m","e","a","t">>
W_turkey  == <<"t","u","r","k","e","y">>
W_fish    == <<"f","i","s","h">>
W_veggie  == <<"v","e","g","g","i","e">>
W_sesame  == <<"s","e","s","a","m","e">>
W_cheddar == <<"c","h","e","d","d","a","r">>
W_and     == <<" ","a","n","d"," ">>
W_ketchup_and_mustard ==
    <<"k","e","t","c","h","u","p"," ","a","n","d"," ","m","u","s","t","a","r","d">>
W_bun_plus == <<" ","b","u","n"," ","+"," ">>
W_plus     == <<" ","+"," ">>
W_cheese_suffix == <<" ","c","h","e","e","s","e">>

----------------------------------------------------------------------------
(* Price table and price calculator *)

\* one unit of price: floats are counted in thousandths
Scale == 1000

\* burger.py:18-26
INGREDIENT_PRICES ==
    (W_bun :> 2000) @@ (W_beef :> 5000) @@ (W_chicken :> 4000) @@
    (W_cheese :> 1000) @@ (W_tomato :> 500) @@ (W_lettuce :> 500) @@
    (W_sauce :> 300)

\* burger.py:28  0.1
TAX_RATE == 100
\* burger.py:29
TAX_ITERATIONS == 2

\* dict.get(key, 0.0)
PriceGet(key) ==
    IF key \in DOMAIN INGREDIENT_PRICES THEN INGREDIENT_PRICES[key] ELSE 0

\* burger.py:71-75
RECURSIVE calculate_tax(_, _)
calculate_tax(price, iterations) ==
    IF iterations <= 0 THEN price
    ELSE calculate_tax((price * (Scale + TAX_RATE)) \div Scale, iterations - 1)

\* mutant: the name is looked up as written, not lower-cased
sum_step_case_sensitive(acc, ingredient) ==
    IF ingredient.t = "str"
    THEN [total   |-> acc.total + PriceGet(ingredient.s),
          logs    |-> acc.logs,
          lookups |-> acc.lookups + 1]
    ELSE [total   |-> acc.total,
          logs    |-> Append(acc.logs, Log("warning", "Invalid ingredient format: %s, error: %s")),
          lookups |-> acc.lookups]

\* burger.py:80-86, one pass of the loop body: an item without .lower() raises
\* AttributeError, which is caught, logged as a warning and skipped
sum_step(acc, ingredient) ==
    IF ingredient.t = "str"
    THEN [total   |-> acc.total + PriceGet(Lower(ingredient.s)),
          logs    |-> acc.logs,
          lookups |-> acc.lookups + 1]
    ELSE [total   |-> acc.total,
          logs    |-> Append(acc.logs, Log("warning", "Invalid ingredient format: %s, error: %s")),
          lookups |-> acc.lookups]

RECURSIVE sum_loop(_, _)
sum_loop(acc, ingredients) ==
    IF ingredients = <<>> THEN acc
    ELSE sum_loop(sum_step(acc, Head(ingredients)), Tail(ingredients))

\* burger.py:77-87
sum_ingredients(ingredients) ==
    sum_loop([total |-> 0, logs |-> <<>>, lookups |-> 0], ingredients)

\* mutant: `if ingredients_list is None`
price_rejects_none_only(ingredients_list) == ingredients_list = None

\* burger.py:65 `if not ingredients_list`
price_rejects(ingredients_list) == ~Truthy(ingredients_list)

\* burger.py:51-90
calculate_burger_price(ingredients_list) ==
    IF price_rejects(ingredients_list)
    THEN [raised |-> "ValueError", msg |-> "Ingredients list cannot be empty",
          ret |-> None, logs |-> <<>>, lookups |-> 0]
    ELSE LET ingredients_copy == ingredients_list.l
             base == sum_ingredients(ingredients_copy)
         IN [raised |-> "none", msg |-> "",
             ret |-> PyFloat(calculate_tax(base.total, TAX_ITERATIONS)),
             logs |-> base.logs, lookups |-> base.lookups]


----------------------------------------------------------------------------
(* Component collectors *)

\* What one call of input() yields: a line of text, or an exception (end of
\* input, or the user's interrupt at the prompt)
Line(s) == [t |-> "line", s |-> s]
Raises(e) == [t |-> "raise", e |-> e]

Raised(e) == [raised |-> e, ret |-> None, logs |-> <<>>]
Returned(v, logs) == [raised |-> "none", ret |-> v, logs |-> logs]

\* burger.py:37-43
get_bun(inp) ==
    IF inp.t = "raise" THEN Raised(inp.e)
    ELSE LET bun_type == Strip(inp.s)
         IN IF bun_type = <<>>
            THEN Returned(PyStr(W_sesame),
                          <<Log("warning", "Empty bun type provided, using default")>>)
            ELSE Returned(PyStr(bun_type), <<>>)

\* burger.py:102
valid_meats == {W_beef, W_chicken, W_turkey, W_fish, W_veggie}

\* burger.py:93-107
get_meat(inp) ==
    IF inp.t = "raise" THEN Raised(inp.e)
    ELSE LET meat_type == Strip(inp.s)
         IN IF meat_type = <<>>
            THEN Returned(PyStr(W_beef),
                          <<Log("warning", "Empty meat type provided, using default")>>)
            ELSE IF Lower(meat_type) \in valid_meats
                 THEN Returned(PyStr(Lower(meat_type)), <<>>)
                 ELSE Returned(PyStr(meat_type),
                               <<Log("info", "Unknown meat type: %s, treating as specialty meat")>>)

\* burger.py:110-116
get_sauce ==
    LET base_sauce == W_ketchup_and_mustard
        pieces == Split(base_sauce, W_and)
        sauce_list == [i \in 1..Len(pieces) |-> Strip(pieces[i])]
    IN Returned(PyStr(Join(W_and, sauce_list)), <<>>)

\* burger.py:119-127
get_cheese(inp) ==
    IF inp.t = "raise" THEN Raised(inp.e)
    ELSE LET cheese_type == Strip(inp.s)
         IN IF cheese_type = <<>>
            THEN Returned(PyStr(W_cheddar),
                          <<Log("warning", "Empty cheese type provided, using default")>>)
            ELSE Returned(PyStr(cheese_type), <<>>)

----------------------------------------------------------------------------
(* Order assembler *)

\* round(price, 2) on a price in thousandths: to the nearest hundredth, a tie
\* to the even one
round2(p) ==
    LET q == p \div 10
        r == p % 10
    IN IF r > 5 \/ (r = 5 /\ q % 2 = 1) THEN (q + 1) * 10 ELSE q * 10

\* burger.py:152
price_ingredients == PyList(<<PyStr(W_bun), PyStr(W_meat), PyStr(W_cheese)>>)

\* burger.py:164-169
describe(bun, meat, sauce, cheese) ==
    bun \o W_bun_plus \o meat \o W_plus \o sauce \o W_plus \o cheese \o W_cheese_suffix

\* burger.py:141 the counter after `BURGER_COUNT += 1`
incremented(count) == count + 1

\* burger.py:140-141: the try block opens with the increment
try_begin(count) ==
    [raised |-> "none", logs |-> <<>>, steps |-> <<"BURGER_COUNT += 1">>,
     data |-> <<>>, BURGER_COUNT |-> incremented(count)]

\* burger.py:144-153: the next step of the try block runs unless an earlier one
\* raised; r is the outcome of the call the step makes
try_step(acc, field, r) ==
    IF acc.raised # "none" THEN acc
    ELSE [raised |-> r.raised, logs |-> acc.logs \o r.logs,
          steps |-> Append(acc.steps, field),
          data |-> IF r.raised = "none" THEN (field :> r.ret) @@ acc.data ELSE acc.data,
          BURGER_COUNT |-> acc.BURGER_COUNT]

\* mutant: the handler takes the increment back when the assembly fails
assemble_end_rollback(acc, lastb) ==
    IF acc.raised = "none"
    THEN LET burger_description ==
                 describe(acc.data["bun"].s, acc.data["meat"].s,
                          acc.data["sauce"].s, acc.data["cheese"].s)
         IN [raised |-> "none", ret |-> PyStr(burger_description),
             logs |-> Append(acc.logs, Log("info", "Burger #%s assembled successfully")),
             steps |-> acc.steps, BURGER_COUNT |-> acc.BURGER_COUNT,
             last_burger |-> PyStr(burger_description)]
    ELSE IF IsException(acc.raised)
    THEN [raised |-> "none", ret |-> None,
          logs |-> Append(acc.logs, Log("error", "Failed to assemble burger: %s")),
          steps |-> acc.steps, BURGER_COUNT |-> acc.BURGER_COUNT - 1, last_burger |-> lastb]
    ELSE [raised |-> acc.raised, ret |-> None, logs |-> acc.logs,
          steps |-> acc.steps, BURGER_COUNT |-> acc.BURGER_COUNT - 1, last_burger |-> lastb]

\* mutant: the handler clears the cache when the assembly fails
assemble_end_clears_cache(acc, lastb) ==
    IF acc.raised = "none"
    THEN LET burger_description ==
                 describe(acc.data["bun"].s, acc.data["meat"].s,
                          acc.data["sauce"].s, acc.data["cheese"].s)
         IN [raised |-> "none", ret |-> PyStr(burger_description),
             logs |-> Append(acc.logs, Log("info", "Burger #%s assembled successfully")),
             steps |-> acc.steps, BURGER_COUNT |-> acc.BURGER_COUNT,
             last_burger |-> PyStr(burger_description)]
    ELSE IF IsException(acc.raised)
    THEN [raised |-> "none", ret |-> None,
          logs |-> Append(acc.logs, Log("error", "Failed to assemble burger: %s")),
          steps |-> acc.steps, BURGER_COUNT |-> acc.BURGER_COUNT, last_burger |-> None]
    ELSE [raised |-> acc.raised, ret |-> None, logs |-> acc.logs,
          steps |-> acc.steps, BURGER_COUNT |-> acc.BURGER_COUNT, last_burger |-> None]

\* burger.py:156-178: how assemble_burger ends, given how the steps of its try
\* block went.  `except Exception` catches the exception of a step unless it is
\* a KeyboardInterrupt, which leaves the function.
assemble_end(acc, lastb) ==
    IF acc.raised = "none"
    THEN LET burger_data == [bun |-> acc.data["bun"].s, meat |-> acc.data["meat"].s,
                             sauce |-> acc.data["sauce"].s, cheese |-> acc.data["cheese"].s,
                             id |-> acc.BURGER_COUNT,
                             price |-> round2(acc.data["price"].n)]
             burger_description ==
                 describe(burger_data.bun, burger_data.meat,
                          burger_data.sauce, burger_data.cheese)
         IN [raised |-> "none", ret |-> PyStr(burger_description),
             logs |-> Append(acc.logs, Log("info", "Burger #%s assembled successfully")),
             steps |-> acc.steps, BURGER_COUNT |-> acc.BURGER_COUNT,
             last_burger |-> PyStr(burger_description)]
    ELSE IF IsException(acc.raised)
    THEN [raised |-> "none", ret |-> None,
          logs |-> Append(acc.logs, Log("error", "Failed to assemble burger: %s")),
          steps |-> acc.steps, BURGER_COUNT |-> acc.BURGER_COUNT, last_burger |-> lastb]
    ELSE [raised |-> acc.raised, ret |-> None, logs |-> acc.logs,
          steps |-> acc.steps, BURGER_COUNT |-> acc.BURGER_COUNT, last_burger |-> lastb]

\* burger.py:130-178.  stdin holds the outcomes of the input() calls, in order.
assemble_burger(count, lastb, stdin) ==
    LET t0 == try_begin(count)
        t1 == try_step(t0, "bun", get_bun(stdin[1]))
        t2 == try_step(t1, "meat", get_meat(stdin[2]))
        t3 == try_step(t2, "sauce", get_sauce)
        t4 == try_step(t3, "cheese", get_cheese(stdin[3]))
        t5 == try_step(t4, "price", calculate_burger_price(price_ingredients))
    IN assemble_end(t5, lastb)

----------------------------------------------------------------------------
(* Persister *)

File_burger == "burger.txt"
File_count  == "burger_count.txt"

\* The names tempfile.mkdtemp can give a directory
TempNames == 1..MaxCalls

\* mutant: a fixed directory in place of a fresh one
mkdtemp_fixed(d) == 1

\* tempfile.mkdtemp(prefix="burger_orders_") (burger.py:198): the name of the
\* directory it creates, a name that no existing directory has
mkdtemp(d) == CHOOSE name \in TempNames : name \notin DOMAIN d

mkdir(d, name) ==
    [n \in DOMAIN d \cup {name} |-> IF n = name THEN <<>> ELSE d[n]]

\* Path.write_text (burger.py:202, 206): the file holds exactly `text`
write_text(d, name, file, text) ==
    [n \in DOMAIN d |->
        IF n = name
        THEN [f \in DOMAIN d[n] \cup {file} |-> IF f = file THEN text ELSE d[n][f]]
        ELSE d[n]]

\* mutant: the handler logs the storage failure and raises it again
save_caught_reraises(d) ==
    [raised |-> "OSError", ret |-> None,
     logs |-> <<Log("error", "Failed to save burger: %s")>>, dirs |-> d]

\* burger.py:211-213
save_caught(d) ==
    [raised |-> "none", ret |-> PyBool(FALSE),
     logs |-> <<Log("error", "Failed to save burger: %s")>>, dirs |-> d]

\* mutant: `if burger is None`
save_rejects_none_only(burger) == burger = None

\* burger.py:192 `if not burger`
save_rejects(burger) == ~Truthy(burger)

\* burger.py:181-213.  `fail` names the storage step that fails with OSError
\* ("none": no step fails).
save_burger(count, d, burger, fail) ==
    IF save_rejects(burger)
    THEN [raised |-> "none", ret |-> PyBool(FALSE),
          logs |-> <<Log("error", "Cannot save empty burger description")>>,
          dirs |-> d]
    ELSE IF fail = "mkdtemp" THEN save_caught(d)
    ELSE LET name == mkdtemp(d)
             d0 == mkdir(d, name)
             d1 == write_text(d0, name, File_burger, burger.s)
             d2 == write_text(d1, name, File_count, DecimalText(count))
         IN IF fail = File_burger THEN save_caught(d0)
            ELSE IF ~Encodable(burger.s)
                 \* the file is open (created, empty) when encoding the text
                 \* raises UnicodeEncodeError, which is no OSError
                 THEN [raised |-> "UnicodeEncodeError", ret |-> None, logs |-> <<>>,
                       dirs |-> write_text(d0, name, File_burger, <<>>)]
            ELSE IF fail = File_count THEN save_caught(d1)
            ELSE [raised |-> "none", ret |-> PyBool(TRUE),
                  logs |-> <<Log("info", "Burger saved to %s")>>, dirs |-> d2]

----------------------------------------------------------------------------
(* Orchestrator *)

\* mutant: no `except KeyboardInterrupt` clause; the interrupt, which
\* `except Exception` does not catch, leaves main
main_except_no_cancel(e, logs, calls, g) ==
    [raised |-> e, ret |-> None,
     logs |-> IF e = "KeyboardInterrupt" THEN logs
              ELSE Append(logs, Log("error", "Unexpected error during burger creation: %s")),
     calls |-> calls, BURGER_COUNT |-> g.BURGER_COUNT,
     last_burger |-> g.last_burger, dirs |-> g.dirs]

\* burger.py:231-235: how main ends when a call inside its try block raised e
main_except(e, logs, calls, g) ==
    IF e = "KeyboardInterrupt"
    THEN [raised |-> "none", ret |-> None,
          logs |-> Append(logs, Log("info", "Burger creation cancelled by user")),
          calls |-> calls, BURGER_COUNT |-> g.BURGER_COUNT,
          last_burger |-> g.last_burger, dirs |-> g.dirs]
    ELSE [raised |-> e, ret |-> None,
          logs |-> Append(logs, Log("error", "Unexpected error during burger creation: %s")),
          calls |-> calls, BURGER_COUNT |-> g.BURGER_COUNT,
          last_burger |-> g.last_burger, dirs |-> g.dirs]

\* main returns normally, having logged `last` last
main_done(logs, last, calls, g) ==
    [raised |-> "none", ret |-> None, logs |-> Append(logs, last), calls |-> calls,
     BURGER_COUNT |-> g.BURGER_COUNT, last_burger |-> g.last_burger, dirs |-> g.dirs]

\* mutant: main does not look at what save_burger returned
main_saved_ignores_result(s, logs, calls, a) ==
    LET g == [BURGER_COUNT |-> a.BURGER_COUNT, last_burger |-> a.last_burger,
              dirs |-> s.dirs]
        c2 == Append(calls, [fn |-> "save_burger", arg |-> a.ret, out |-> s])
    IN IF s.raised # "none"
       THEN [raised |-> s.raised, ret |-> None,
             logs |-> Append(logs \o s.logs,
                             Log("error", "Unexpected error during burger creation: %s")),
             calls |-> c2, BURGER_COUNT |-> g.BURGER_COUNT,
             last_burger |-> g.last_burger, dirs |-> g.dirs]
       ELSE [raised |-> "none", ret |-> None,
             logs |-> Append(logs \o s.logs,
                             Log("info", "Burger creation completed successfully")),
             calls |-> c2, BURGER_COUNT |-> g.BURGER_COUNT,
             last_burger |-> g.last_burger, dirs |-> g.dirs]

\* burger.py:223-227: main once save_burger(burger) has ended with outcome s
main_saved(s, logs, calls, a) ==
    LET g == [BURGER_COUNT |-> a.BURGER_COUNT, last_burger |-> a.last_burger,
              dirs |-> s.dirs]
        c2 == Append(calls, [fn |-> "save_burger", arg |-> a.ret, out |-> s])
    IN IF s.raised # "none" THEN main_except(s.raised, logs \o s.logs, c2, g)
       ELSE IF s.ret.b
            THEN main_done(logs \o s.logs,
                           Log("info", "Burger creation completed successfully"), c2, g)
            ELSE main_done(logs \o s.logs, Log("error", "Failed to save burger"), c2, g)

\* burger.py:221-229: main once assemble_burger() has ended with outcome a
main_assembled(a, logs, d, fail) ==
    LET g == [BURGER_COUNT |-> a.BURGER_COUNT, last_burger |-> a.last_burger,
              dirs |-> d]
        c1 == <<[fn |-> "assemble_burger", out |-> a]>>
    IN IF a.raised # "none" THEN main_except(a.raised, logs \o a.logs, c1, g)
       ELSE IF Truthy(a.ret)
            THEN main_saved(save_burger(a.BURGER_COUNT, d, a.ret, fail),
                            logs \o a.logs, c1, a)
            ELSE main_done(logs \o a.logs, Log("error", "Failed to create burger"), c1, g)

\* burger.py:216-235
main(count, lastb, d, stdin, fail) ==
    main_assembled(assemble_burger(count, lastb, stdin),
                   <<Log("info", "Starting burger creation process")>>, d, fail)

----------------------------------------------------------------------------
(* State machine: the module's API, called by a single-threaded caller *)

Idle == [op |-> "idle"]

Init ==
    /\ BURGER_COUNT = 0
    /\ last_burger = None
    /\ dirs = <<>>
    /\ call = Idle
    /\ ncalls = 0
    /\ invocations = 0
    /\ returned = None

\* the globals and the storage as a call found them
Pre == [BURGER_COUNT |-> BURGER_COUNT, last_burger |-> last_burger, dirs |-> dirs]

\* exceptions input() raises: end of input, the user's Ctrl-C
InputErrors == {"EOFError", "KeyboardInterrupt"}

\* lines typed at the prompts of one assembly
BunLines    == {<<>>, <<" ","R","y","e","\t">>}
MeatLines   == {<<"F","I","S","H">>, <<"E",Surrogate>>}
CheeseLines == {<<" ">>}

\* what the input() calls of one assembly yield, up to the first that raises
Stdins ==
    {<<Raises(e)>> : e \in InputErrors}
    \cup {<<Line(b), Raises(e)>> : b \in BunLines, e \in InputErrors}
    \cup {<<Line(b), Line(m), Raises(e)>> :
            b \in BunLines, m \in MeatLines, e \in InputErrors}
    \cup {<<Line(b), Line(m), Line(c)>> :
            b \in BunLines, m \in MeatLines, c \in CheeseLines}

\* the storage step that fails with OSError, if any
SaveFails == {"none", "mkdtemp", File_burger, File_count}

\* descriptions handed to save_burger by a direct caller
SaveArgs == {None, PyStr(<<>>), PyStr(<<"x">>), PyStr(<<Surrogate>>)}

\* history: the description the caller holds once an invocation of
\* assemble_burger has ended with outcome a; prev is the one it held before
Delivered(a, prev) ==
    IF a.raised = "none" /\ a.ret # None THEN a.ret ELSE prev

CallAssemble ==
    /\ call = Idle
    /\ ncalls < MaxCalls
    /\ \E stdin \in Stdins :
        LET out == assemble_burger(BURGER_COUNT, last_burger, stdin)
        IN /\ BURGER_COUNT' = out.BURGER_COUNT
           /\ last_burger' = out.last_burger
           /\ call' = [op |-> "assemble_burger", stdin |-> stdin, pre |-> Pre, out |-> out]
           /\ returned' = Delivered(out, returned)
    /\ ncalls' = ncalls + 1
    /\ invocations' = invocations + 1
    /\ UNCHANGED dirs

CallSave ==
    /\ call = Idle
    /\ ncalls < MaxCalls
    /\ \E burger \in SaveArgs \cup {last_burger}, fail \in SaveFails :
        LET out == save_burger(BURGER_COUNT, dirs, burger, fail)
        IN /\ dirs' = out.dirs
           /\ call' = [op |-> "save_burger", arg |-> burger, fail |-> fail,
                       pre |-> Pre, out |-> out]
    /\ ncalls' = ncalls + 1
    /\ UNCHANGED <<BURGER_COUNT, last_burger, invocations, returned>>

CallMain ==
    /\ call = Idle
    /\ ncalls < MaxCalls
    /\ \E stdin \in Stdins, fail \in SaveFails :
        LET out == main(BURGER_COUNT, last_burger, dirs, stdin, fail)
        IN /\ BURGER_COUNT' = out.BURGER_COUNT
           /\ last_burger' = out.last_burger
           /\ dirs' = out.dirs
           /\ call' = [op |-> "main", stdin |-> stdin, fail |-> fail,
                       pre |-> Pre, out |-> out]
           /\ returned' = Delivered(out.calls[1].out, returned)
    /\ ncalls' = ncalls + 1
    /\ invocations' = invocations + 1

\* the caller takes the outcome; the module is ready for the next call
Return ==
    /\ call # Idle
    /\ call' = Idle
    /\ UNCHANGED <<BURGER_COUNT, last_burger, dirs, ncalls, invocations, returned>>

Next ==
    \/ CallAssemble
    \/ CallSave
    \/ CallMain
    \/ Return

Spec == Init /\ [][Next]_vars

----------------------------------------------------------------------------
(* The functions that touch neither the globals nor the storage, called on *)
(* their own                                                               *)

W_unknown == <<"u","n","k","n","o","w","n">>

\* entries of the lists handed to calculate_burger_price: names in the table, in
\* other letter cases, names not in the table, and entries that are no text
IngredientItems ==
    {PyStr(W_bun), PyStr(W_beef), PyStr(W_cheese), PyStr(W_tomato), PyStr(W_sauce)}
    \cup {PyStr(Upper(W_bun)), PyStr(Upper(W_beef)), PyStr(Upper(W_cheese))}
    \cup {PyStr(W_unknown), PyStr(W_meat)}
    \cup {None, PyInt(123)}

RECURSIVE ListsUpTo(_, _)
ListsUpTo(S, n) ==
    IF n = 0 THEN {<<>>}
    ELSE LET shorter == ListsUpTo(S, n - 1)
         IN shorter \cup {Append(l, x) : l \in shorter, x \in S}

PriceArgs == {None} \cup {PyList(l) : l \in ListsUpTo(IngredientItems, MaxIngredients)}

\* lines typed at one prompt
PromptLines ==
    { <<>>, <<" ">>, <<"\t"," ">>,
      <<"r","y","e">>, <<" ","R","y","e","\t">>, <<"r"," ","y">>,
      W_fish, <<"F","I","S","H">>, <<" ","B","e","e","f"," ">>, Upper(W_veggie),
      <<"E","m","u">>, <<"\t","W","a","g","y","u">>,
      <<Surrogate>> }

PromptInputs == {Line(s) : s \in PromptLines} \cup {Raises(e) : e \in InputErrors}

\* a call that leaves the globals and the storage alone
Untouched == UNCHANGED <<BURGER_COUNT, last_burger, dirs, invocations, returned>>

CallCalculatePrice ==
    /\ call = Idle
    /\ ncalls < MaxCalls
    /\ \E arg \in PriceArgs :
        call' = [op |-> "calculate_burger_price", arg |-> arg,
                 out |-> calculate_burger_price(arg)]
    /\ ncalls' = ncalls + 1
    /\ Untouched

CallGetBun ==
    /\ call = Idle
    /\ ncalls < MaxCalls
    /\ \E inp \in PromptInputs :
        call' = [op |-> "get_bun", arg |-> inp, out |-> get_bun(inp)]
    /\ ncalls' = ncalls + 1
    /\ Untouched

CallGetMeat ==
    /\ call = Idle
    /\ ncalls < MaxCalls
    /\ \E inp \in PromptInputs :
        call' = [op |-> "get_meat", arg |-> inp, out |-> get_meat(inp)]
    /\ ncalls' = ncalls + 1
    /\ Untouched

CallGetSauce ==
    /\ call = Idle
    /\ ncalls < MaxCalls
    /\ call' = [op |-> "get_sauce", arg |-> None, out |-> get_sauce]
    /\ ncalls' = ncalls + 1
    /\ Untouched

CallGetCheese ==
    /\ call = Idle
    /\ ncalls < MaxCalls
    /\ \E inp \in PromptInputs :
        call' = [op |-> "get_cheese", arg |-> inp, out |-> get_cheese(inp)]
    /\ ncalls' = ncalls + 1
    /\ Untouched

NextFn ==
    \/ CallCalculatePrice
    \/ CallGetBun
    \/ CallGetMeat
    \/ CallGetSauce
    \/ CallGetCheese
    \/ Return

SpecFn == Init /\ [][NextFn]_vars

----------------------------------------------------------------------------
(* What the current call shows of the functions it ran *)

\* the runs of assemble_burger: the call itself, or the one main made
AssembleRuns ==
    IF call.op = "assemble_burger"
    THEN {[stdin |-> call.stdin, pre |-> call.pre, out |-> call.out]}
    ELSE IF call.op = "main"
    THEN {[stdin |-> call.stdin, pre |-> call.pre, out |-> call.out.calls[1].out]}
    ELSE {}

\* the runs of save_burger: the call itself, or the one main made
SaveRuns ==
    IF call.op = "save_burger"
    THEN {[arg |-> call.arg, fail |-> call.fail, pre |-> call.pre, out |-> call.out]}
    ELSE IF call.op = "main" /\ Len(call.out.calls) = 2
    THEN {[arg |-> call.out.calls[2].arg, fail |-> call.fail,
           pre |-> [BURGER_COUNT |-> call.out.calls[1].out.BURGER_COUNT,
                    last_burger |-> call.out.calls[1].out.last_burger,
                    dirs |-> call.pre.dirs],
           out |-> call.out.calls[2].out]}
    ELSE {}

\* the exception the last input() of stdin raised, or "none"
InputRaised(stdin) ==
    IF stdin[Len(stdin)].t = "raise" THEN stdin[Len(stdin)].e ELSE "none"

Errors(logs) == CountLevel(logs, "error")
Warnings(logs) == CountLevel(logs, "warning")
LastLog(logs) == logs[Len(logs)]

----------------------------------------------------------------------------
(* Order counter *)

\* C1: every invocation of assemble_burger, whether it returns a description,
\* returns None or is left by an exception, adds exactly 1 to BURGER_COUNT; the
\* increment is the first step, before any collector runs, and is not undone;
\* so the counter equals the number of invocations made, and no call lowers it.
C1_CounterCountsInvocations ==
    /\ BURGER_COUNT = invocations
    /\ \A r \in AssembleRuns :
        /\ r.out.BURGER_COUNT = r.pre.BURGER_COUNT + 1
        /\ BURGER_COUNT = r.out.BURGER_COUNT
        /\ r.out.steps[1] = "BURGER_COUNT += 1"
        /\ \A i \in 2..Len(r.out.steps) : r.out.steps[i] # "BURGER_COUNT += 1"
    /\ call # Idle => BURGER_COUNT >= call.pre.BURGER_COUNT
    /\ call.op = "save_burger" => BURGER_COUNT = call.pre.BURGER_COUNT

\* a third invocation, after a successful one, is left by the user's interrupt
\* and the counter is 3
C1_Witness ==
    /\ call.op = "assemble_burger"
    /\ call.out.raised = "KeyboardInterrupt"
    /\ last_burger # None
    /\ BURGER_COUNT = 3

----------------------------------------------------------------------------
(* Assembly failure *)

\* C2 as stated: whenever a step of assemble_burger raises, assemble_burger
\* logs exactly one error and returns None, and no exception leaves it.
C2_Original ==
    \A r \in AssembleRuns :
        InputRaised(r.stdin) # "none" =>
            /\ r.out.raised = "none"
            /\ r.out.ret = None
            /\ Errors(r.out.logs) = 1

\* C2: whenever a step of assemble_burger raises an exception other than the
\* user's interrupt, assemble_burger logs exactly one error and returns None,
\* and no exception leaves it; a KeyboardInterrupt raised at a prompt leaves
\* assemble_burger, with no error logged.
C2_FailureContained ==
    \A r \in AssembleRuns :
        /\ InputRaised(r.stdin) \notin {"none", "KeyboardInterrupt"} =>
            /\ r.out.raised = "none"
            /\ r.out.ret = None
            /\ Errors(r.out.logs) = 1
        /\ InputRaised(r.stdin) = "KeyboardInterrupt" =>
            /\ r.out.raised = "KeyboardInterrupt"
            /\ Errors(r.out.logs) = 0

\* the cheese prompt, the last collector, meets the end of input
C2_Witness ==
    /\ call.op = "assemble_burger"
    /\ Len(call.stdin) = 3
    /\ InputRaised(call.stdin) = "EOFError"
    /\ call.out.ret = None
    /\ Errors(call.out.logs) = 1

----------------------------------------------------------------------------
(* Orchestrator *)

CallsOf(fn) ==
    {i \in 1..Len(call.out.calls) : call.out.calls[i].fn = fn}

\* C3: in one run of main, assemble_burger is invoked exactly once and first;
\* save_burger is invoked, once and with the description, iff assemble_burger
\* returned a non-empty description; when assemble_burger returned None no save
\* is made, an error is logged and main returns; after the save main logs a
\* success message when it returned True and an error when it returned False,
\* and returns in both cases.
C3_MainSequence ==
    call.op = "main" =>
        LET calls == call.out.calls
            a == calls[1].out
        IN /\ calls[1].fn = "assemble_burger"
           /\ Cardinality(CallsOf("assemble_burger")) = 1
           /\ Cardinality(CallsOf("save_burger")) <= 1
           /\ (CallsOf("save_burger") # {}) <=>
                  (a.raised = "none" /\ a.ret.t = "str" /\ a.ret.s # <<>>)
           /\ CallsOf("save_burger") # {} => calls[2].arg = a.ret
           /\ (a.raised = "none" /\ a.ret = None) =>
                  /\ call.out.raised = "none"
                  /\ LastLog(call.out.logs) = Log("error", "Failed to create burger")
                  /\ call.out.dirs = call.pre.dirs
           /\ (Len(calls) = 2 /\ calls[2].out.ret = PyBool(TRUE)) =>
                  /\ call.out.raised = "none"
                  /\ LastLog(call.out.logs) =
                         Log("info", "Burger creation completed successfully")
           /\ (Len(calls) = 2 /\ calls[2].out.ret = PyBool(FALSE)) =>
                  /\ call.out.raised = "none"
                  /\ LastLog(call.out.logs) = Log("error", "Failed to save burger")

\* main saved the assembled burger and the save returned False
C3_Witness ==
    /\ call.op = "main"
    /\ Len(call.out.calls) = 2
    /\ call.out.calls[2].out.ret = PyBool(FALSE)
    /\ call.out.raised = "none"

\* the exception that reached main's handlers, or "none"
ReachedMain ==
    LET calls == call.out.calls IN calls[Len(calls)].out.raised

\* C4: a KeyboardInterrupt raised during the run of main is logged with the
\* informational message "Burger creation cancelled by user", no error is
\* logged and main returns; any other exception that reaches main is logged as
\* an error and raised again.
C4_CancelDistinct ==
    call.op = "main" =>
        /\ ReachedMain = "KeyboardInterrupt" =>
            /\ call.out.raised = "none"
            /\ LastLog(call.out.logs) = Log("info", "Burger creation cancelled by user")
            /\ Errors(call.out.logs) = 0
        /\ ReachedMain \notin {"none", "KeyboardInterrupt"} =>
            /\ call.out.raised = ReachedMain
            /\ LastLog(call.out.logs).level = "error"
        /\ call.out.raised # "none" => ReachedMain = call.out.raised

\* the user interrupts main at the cheese prompt, after a warning was logged
C4_Witness ==
    /\ call.op = "main"
    /\ Len(call.stdin) = 3
    /\ InputRaised(call.stdin) = "KeyboardInterrupt"
    /\ Warnings(call.out.logs) = 1
    /\ call.out.raised = "none"

\* an exception that is no interrupt reaches main and is raised again
C4_Reraised ==
    /\ call.op = "main"
    /\ call.out.raised = "UnicodeEncodeError"

----------------------------------------------------------------------------
(* Persister *)

\* the step `fail` names is reached, so its OSError is raised
StorageFailureOccurs(r) ==
    /\ Truthy(r.arg)
    /\ \/ r.fail \in {"mkdtemp", File_burger}
       \/ r.fail = File_count /\ Encodable(r.arg.s)

C6_EmptyRejected ==
    \A r \in SaveRuns :
        r.arg \in {None, PyStr(<<>>)} =>
            /\ r.out.raised = "none"
            /\ r.out.ret = PyBool(FALSE)
            /\ Errors(r.out.logs) = 1
            /\ r.out.dirs = r.pre.dirs
            /\ dirs = r.pre.dirs
            /\ BURGER_COUNT = r.pre.BURGER_COUNT
            /\ last_burger = r.pre.last_burger

\* an empty description is handed to save_burger when the storage holds a
\* directory and a burger was assembled
C6_Witness ==
    /\ call.op = "save_burger"
    /\ call.arg = PyStr(<<>>)
    /\ call.out.ret = PyBool(FALSE)
    /\ DOMAIN dirs # {}
    /\ last_burger # None

DigitValue(c) == CHOOSE d \in 0..9 : Digits[d + 1] = c

RECURSIVE DecimalValue(_)
DecimalValue(text) ==
    IF text = <<>> THEN 0
    ELSE 10 * DecimalValue(SubSeq(text, 1, Len(text) - 1)) + DigitValue(text[Len(text)])

\* text is the decimal numeral of n
IsDecimalOf(text, n) ==
    /\ text # <<>>
    /\ \A i \in 1..Len(text) : \E d \in 1..10 : Digits[d] = text[i]
    /\ Len(text) > 1 => text[1] # "0"
    /\ DecimalValue(text) = n

\* C7: a call of save_burger with a non-empty description that returns True
\* has created exactly one directory, one that did not exist before (and no
\* directory is ever removed, so none an earlier call used), holding exactly
\* burger.txt with the description verbatim and burger_count.txt with the
\* decimal text of BURGER_COUNT; the other directories and the counter are as
\* they were.
C7_SaveWritesFreshDirectory ==
    /\ call # Idle => DOMAIN call.pre.dirs \subseteq DOMAIN dirs
    /\ \A r \in SaveRuns :
        (Truthy(r.arg) /\ r.out.ret = PyBool(TRUE)) =>
            LET new == DOMAIN r.out.dirs \ DOMAIN r.pre.dirs
            IN /\ Cardinality(new) = 1
               /\ DOMAIN r.pre.dirs \subseteq DOMAIN r.out.dirs
               /\ \A n \in DOMAIN r.pre.dirs : r.out.dirs[n] = r.pre.dirs[n]
               /\ \A n \in new :
                    /\ DOMAIN r.out.dirs[n] = {"burger.txt", "burger_count.txt"}
                    /\ r.out.dirs[n]["burger.txt"] = r.arg.s
                    /\ IsDecimalOf(r.out.dirs[n]["burger_count.txt"], r.pre.BURGER_COUNT)
               /\ BURGER_COUNT = r.pre.BURGER_COUNT
               /\ dirs = r.out.dirs

\* a second save succeeds, after a burger was assembled
C7_Witness ==
    /\ call.op = "save_burger"
    /\ call.out.ret = PyBool(TRUE)
    /\ DOMAIN call.pre.dirs # {}
    /\ BURGER_COUNT >= 1

----------------------------------------------------------------------------
(* Price calculator *)

\* a non-empty list of text names
IsTextList(arg) ==
    /\ arg.t = "list"
    /\ arg.l # <<>>
    /\ \A i \in 1..Len(arg.l) : arg.l[i].t = "str"

\* how often the list names the key, letter case aside
Occurrences(l, key) ==
    Cardinality({i \in 1..Len(l) : Lower(l[i].s) = key})

RECURSIVE TableSum(_, _)
TableSum(l, keys) ==
    IF keys = {} THEN 0
    ELSE LET k == CHOOSE x \in keys : TRUE
         IN INGREDIENT_PRICES[k] * Occurrences(l, k) + TableSum(l, keys \ {k})

\* the sum, with repetitions, of the table prices of the names of l
ExpectedBase(l) == TableSum(l, DOMAIN INGREDIENT_PRICES)

UpperAll(l) == [i \in 1..Len(l) |-> PyStr(Upper(l[i].s))]

\* C8: for a non-empty list of text names calculate_burger_price returns a
\* value >= 0 equal to the sum of the table prices of the lower-cased names (0
\* for a name not in the table) times 1.21, exactly; no name is an error; the
\* upper-cased list has the same price; BUN, BEEF, CHEESE in either case cost
\* 9.68 and bun, unknown, cheese cost 3.63.
C8_PriceIsTaxedSum ==
    (call.op = "calculate_burger_price" /\ IsTextList(call.arg)) =>
        LET l == call.arg.l
            out == call.out
        IN /\ out.raised = "none"
           /\ out.logs = <<>>
           /\ out.ret.t = "float"
           /\ out.ret.n >= 0
           /\ out.ret.n * 100 = ExpectedBase(l) * 121
           /\ out.ret = calculate_burger_price(PyList(UpperAll(l))).ret
           /\ l = <<PyStr(W_bun), PyStr(W_unknown), PyStr(W_cheese)>> => out.ret.n = 3630
           /\ l \in {<<PyStr(W_bun), PyStr(W_beef), PyStr(W_cheese)>>,
                     <<PyStr(Upper(W_bun)), PyStr(Upper(W_beef)), PyStr(Upper(W_cheese))>>}
                 => out.ret.n = 9680

\* BUN, BEEF, CHEESE is priced 9.68
C8_Witness ==
    /\ call.op = "calculate_burger_price"
    /\ call.arg = PyList(<<PyStr(Upper(W_bun)), PyStr(Upper(W_beef)), PyStr(Upper(W_cheese))>>)
    /\ call.out.ret = PyFloat(9680)

\* C9: calculate_burger_price called with an empty list or with None raises
\* ValueError with the message "Ingredients list cannot be empty" in both
\* cases and returns no price; it has then looked up nothing and logged nothing.
C9_EmptyRejected ==
    (call.op = "calculate_burger_price" /\ call.arg \in {None, PyList(<<>>)}) =>
        /\ call.out.raised = "ValueError"
        /\ call.out.msg = "Ingredients list cannot be empty"
        /\ call.out.ret = None
        /\ call.out.lookups = 0
        /\ call.out.logs = <<>>

\* the empty list is rejected
C9_Witness ==
    /\ call.op = "calculate_burger_price"
    /\ call.arg = PyList(<<>>)
    /\ call.out.raised = "ValueError"

----------------------------------------------------------------------------
(* Component collectors *)

IsBlank(s) == \A i \in 1..Len(s) : s[i] \in Whitespace

\* r is s without its leading and trailing whitespace
IsTrimOf(r, s) ==
    /\ r # <<>>
    /\ r[1] \notin Whitespace
    /\ r[Len(r)] \notin Whitespace
    /\ \E i \in 1..Len(s) :
        /\ i + Len(r) - 1 <= Len(s)
        /\ SubSeq(s, i, i + Len(r) - 1) = r
        /\ \A k \in 1..Len(s) : (k < i \/ k > i + Len(r) - 1) => s[k] \in Whitespace

SameIgnoringCase(a, b) ==
    /\ Len(a) = Len(b)
    /\ \A i \in 1..Len(a) : LowerChar(a[i]) = LowerChar(b[i])

DefaultOf(op) ==
    CASE op = "get_bun" -> W_sesame
      [] op = "get_meat" -> W_beef
      [] op = "get_sauce" -> W_ketchup_and_mustard
      [] op = "get_cheese" -> W_cheddar

PromptedCall ==
    /\ call.op \in {"get_bun", "get_meat", "get_cheese"}
    /\ call.arg.t = "line"

\* C10 as stated: each collector returns its default and logs exactly one
\* warning on blank input, and returns the trimmed text, with no warning, on
\* any other input.
C10_Original ==
    /\ PromptedCall =>
        IF IsBlank(call.arg.s)
        THEN /\ call.out.ret = PyStr(DefaultOf(call.op))
             /\ Warnings(call.out.logs) = 1
        ELSE /\ IsTrimOf(call.out.ret.s, call.arg.s)
             /\ Warnings(call.out.logs) = 0
    /\ call.op = "get_sauce" => call.out.ret = PyStr(DefaultOf(call.op))

\* C10: bun, meat and cheese return their default and log exactly one warning
\* on blank input; on any other input no warning is logged and the trimmed
\* text is returned, except that meat returns the lower-case name when the
\* trimmed text is, letter case aside, one of beef, chicken, turkey, fish,
\* veggie; sauce reads no input and returns 'ketchup and mustard' with no
\* warning.
C10_CollectorDefaults ==
    /\ PromptedCall =>
        IF IsBlank(call.arg.s)
        THEN /\ call.out.ret = PyStr(DefaultOf(call.op))
             /\ Warnings(call.out.logs) = 1
        ELSE /\ call.out.raised = "none"
             /\ Warnings(call.out.logs) = 0
             /\ \E trimmed \in {SubSeq(call.arg.s, i, j) : i, j \in 1..Len(call.arg.s)} :
                 /\ IsTrimOf(trimmed, call.arg.s)
                 /\ IF call.op = "get_meat"
                       /\ \E v \in valid_meats : SameIgnoringCase(v, trimmed)
                    THEN /\ call.out.ret.s \in valid_meats
                         /\ SameIgnoringCase(call.out.ret.s, trimmed)
                    ELSE call.out.ret.s = trimmed
    /\ call.op = "get_sauce" =>
        /\ call.out.ret = PyStr(DefaultOf(call.op))
        /\ call.out.logs = <<>>

\* meat is given ' Beef ' and returns 'beef'
C10_Witness ==
    /\ call.op = "get_meat"
    /\ call.arg = Line(<<" ","B","e","e","f"," ">>)
    /\ call.out.ret = PyStr(W_beef)
    /\ call.out.logs = <<>>

\* a collector is given whitespace only and returns its default with a warning
C10_BlankWitness ==
    /\ call.op = "get_cheese"
    /\ call.arg = Line(<<"\t"," ">>)
    /\ call.out.ret = PyStr(W_cheddar)
    /\ Warnings(call.out.logs) = 1

----------------------------------------------------------------------------
(* Last order cache *)

\* the text "{bun} bun + {meat} + {sauce} + {cheese} cheese"
Formatted(bun, meat, sauce, cheese) ==
    bun \o <<" ","b","u","n"," ","+"," ">> \o meat \o <<" ","+"," ">>
        \o sauce \o <<" ","+"," ">> \o cheese \o <<" ","c","h","e","e","s","e">>

\* an invocation of assemble_burger succeeded: it returned a description
Succeeded(r) == r.out.raised = "none" /\ r.out.ret # None

\* C11: after any sequence of invocations of assemble_burger, last_burger is
\* the description the most recent invocation that succeeded returned, or None
\* if none has; an invocation that succeeds sets it to exactly the description
\* it returns, "{bun} bun + {meat} + {sauce} + {cheese} cheese" of what the
\* collectors returned; one that fails (returns None, or is left by an
\* exception) leaves it as it was while the counter still advances; no other
\* call assigns it.
C11_CacheIsLastSuccess ==
    /\ last_burger = returned
    /\ \A r \in AssembleRuns :
        IF Succeeded(r)
        THEN /\ last_burger = r.out.ret
             /\ r.out.ret.t = "str"
             /\ r.out.ret.s =
                    Formatted(get_bun(r.stdin[1]).ret.s, get_meat(r.stdin[2]).ret.s,
                              W_ketchup_and_mustard, get_cheese(r.stdin[3]).ret.s)
        ELSE /\ last_burger = r.pre.last_burger
             /\ BURGER_COUNT = r.pre.BURGER_COUNT + 1
    /\ call.op = "save_burger" => last_burger = call.pre.last_burger

\* an invocation fails after two that succeeded with different descriptions:
\* the cache holds the second description
C11_Witness ==
    /\ call.op = "assemble_burger"
    /\ call.out.ret = None
    /\ call.pre.last_burger # None
    /\ last_burger = call.pre.last_burger
    /\ BURGER_COUNT = 3
    /\ last_burger.s = Formatted(<<"R","y","e">>, W_fish, W_ketchup_and_mustard, W_cheddar)

====
